---- MODULE Spec2Model ----
(***************************************************************************)
(* Model of the RoamMind conversation orchestrator                         *)
(* (src/src/core/orchestrator.py), of Conversation.add_message             *)
(* (src/src/models/user.py) and of the _call_api helpers of the four       *)
(* backing services (src/src/infrastructure/*_service.py).                 *)
(*                                                                         *)
(* Time is counted in minutes.  The orchestrator runs on one asyncio event *)
(* loop: a coroutine gives up control only at an await that really         *)
(* suspends.  save_conversation_state, get_conversation and                *)
(* load_conversation_history contain no such await, so each is one atomic  *)
(* step; the only suspension point of process_user_input is kernel.invoke. *)
(***************************************************************************)
EXTENDS Integers, Sequences, FiniteSets, TLC

\* ------------------------------------------------------------------ bounds
ConversationIds == {"a", "b"}
NumTurns == 2
MaxTime == 31
TickSteps == {15, 31}

\* ------------------------------------------------------- program constants
SESSION_TIMEOUT == 30
max_retries == 3

VARIABLES
    session_conversations, \* dict: conversation id -> (Conversation, last activity)
    now,                   \* datetime.now(timezone.utc), in minutes
    next_uuid,             \* source of uuid.uuid4() values
    turn,                  \* the process_user_input coroutines
    last_op,               \* the latest Session Store call and what it answered
    calls,                 \* per id: save calls since the entry was last deleted
    evicted,               \* per id: some entry for the id has been deleted
    call,                  \* the _call_api invocation in progress
    provider               \* the latest service or interpreter operation and its outcome

vars == <<session_conversations, now, next_uuid, turn, last_op, calls, evicted, call, provider>>
storeVars == <<session_conversations, now, next_uuid, turn, last_op, calls, evicted>>

Turns == 1..NumTurns
None == {}
Some(x) == {x}

\* ---------------------------------------------------------------- messages
\* Texts are sequences of characters, so that lower() and the substring test
\* `"flight" in lowered` are computed and not assumed.
KwExcursion == <<"e","x","c","u","r","s","i","o","n">>
KwRestaurant == <<"r","e","s","t","a","u","r","a","n","t">>
KwHotel == <<"h","o","t","e","l">>
KwFlight == <<"f","l","i","g","h","t">>

MessageText ==
    [ flights    |-> <<"F","l","i","g","h","t","s">>,
      hotel      |-> <<"a"," ">> \o <<"H","O","T","E","L">>,
      restaurant |-> KwRestaurant \o <<"s">>,
      excursion  |-> <<"E">> \o Tail(KwExcursion),
      fl_ho      |-> KwFlight \o <<" ">> \o KwHotel,
      ho_fl      |-> <<"H">> \o Tail(KwHotel) \o <<" ">> \o KwFlight,
      re_ex      |-> KwRestaurant \o KwExcursion,
      hi         |-> <<"h","i">>,
      split      |-> <<"f","l"," ","i","g","h","t">>,
      empty      |-> <<>> ]

Messages == DOMAIN MessageText

\* the texts submitted while the Session Store is exercised: one that names a
\* capability and one that names none
TurnMessages == {"flights", "hi"}

LowerChar(c) ==
    CASE c = "A" -> "a" [] c = "B" -> "b" [] c = "C" -> "c" [] c = "D" -> "d"
      [] c = "E" -> "e" [] c = "F" -> "f" [] c = "G" -> "g" [] c = "H" -> "h"
      [] c = "I" -> "i" [] c = "J" -> "j" [] c = "K" -> "k" [] c = "L" -> "l"
      [] c = "M" -> "m" [] c = "N" -> "n" [] c = "O" -> "o" [] c = "P" -> "p"
      [] c = "Q" -> "q" [] c = "R" -> "r" [] c = "S" -> "s" [] c = "T" -> "t"
      [] c = "U" -> "u" [] c = "V" -> "v" [] c = "W" -> "w" [] c = "X" -> "x"
      [] c = "Y" -> "y" [] c = "Z" -> "z"
      [] OTHER -> c

UpperChar(c) ==
    CASE c = "a" -> "A" [] c = "b" -> "B" [] c = "c" -> "C" [] c = "d" -> "D"
      [] c = "e" -> "E" [] c = "f" -> "F" [] c = "g" -> "G" [] c = "h" -> "H"
      [] c = "i" -> "I" [] c = "j" -> "J" [] c = "k" -> "K" [] c = "l" -> "L"
      [] c = "m" -> "M" [] c = "n" -> "N" [] c = "o" -> "O" [] c = "p" -> "P"
      [] c = "q" -> "Q" [] c = "r" -> "R" [] c = "s" -> "S" [] c = "t" -> "T"
      [] c = "u" -> "U" [] c = "v" -> "V" [] c = "w" -> "W" [] c = "x" -> "X"
      [] c = "y" -> "Y" [] c = "z" -> "Z"
      [] OTHER -> c

\* str.lower()
Lower(s) == [i \in 1..Len(s) |-> LowerChar(s[i])]

\* str.upper()
Upper(s) == [i \in 1..Len(s) |-> UpperChar(s[i])]

\* str.capitalize() of a text in lower case
Capitalize(s) == [i \in 1..Len(s) |-> IF i = 1 THEN UpperChar(s[i]) ELSE s[i]]

\* the Python test `sub in s` on strings
Contains(sub, s) ==
    \E i \in 1..(Len(s) - Len(sub) + 1) : SubSeq(s, i, i + Len(sub) - 1) = sub

\* ------------------------------------------------------------ Session Store
Message(content, role) == [content |-> content, role |-> role]

\* Message's validators: content must be a str, role one of the two roles.
\* "<FunctionResult>" stands for a kernel.invoke result that is not a str.
ValidMessage(content, role) ==
    /\ content # "<FunctionResult>"
    /\ role \in {"user", "assistant"}

\* a value of datetime.now(timezone.utc): the minute of the clock and the
\* call that read it.  The reads of one handler are separate calls, in general
\* microseconds apart, so values of different reads are kept apart.
Clock(t, read) == [at |-> t, read |-> read]

\* Conversation(id=..., user_id=context.user_id, context=context, messages=[])
NewConversation(id, uid, t) ==
    [ id |-> id, user_id |-> uid,
      context |-> [user_id |-> uid, memory |-> {}],
      messages |-> <<>>,
      created_at |-> Clock(t, "created_at"), last_active |-> Clock(t, "last_active") ]

add_message_prepend(conversation, content, role, t) ==
    [conversation EXCEPT !.messages = <<Message(content, role)>> \o @,
                         !.last_active = Clock(t, "add_message")]

add_message(conversation, content, role, t) ==
    [conversation EXCEPT !.messages = Append(@, Message(content, role)),
                         !.last_active = Clock(t, "add_message")]

\* the del left out
cleanup_session_keeps(sc, id) == sc

\* session_conversations.clear() in place of the del of one key
cleanup_session_clear(sc, id) ==
    IF id \in DOMAIN sc THEN <<>> ELSE sc

cleanup_session(sc, id) ==
    IF id \in DOMAIN sc THEN [i \in DOMAIN sc \ {id} |-> sc[i]] ELSE sc

expired_sessions_reversed(sc, t) ==
    {id \in DOMAIN sc : sc[id].last_active - t > SESSION_TIMEOUT}

expired_sessions(sc, t) ==
    {id \in DOMAIN sc : t - sc[id].last_active > SESSION_TIMEOUT}

RECURSIVE CleanupAll(_, _)
CleanupAll(sc, ids) ==
    IF ids = {} THEN sc
    ELSE LET id == CHOOSE i \in ids : TRUE
         IN  CleanupAll(cleanup_session(sc, id), ids \ {id})

cleanup_expired_sessions(sc, t) == CleanupAll(sc, expired_sessions(sc, t))

SaveOpen_always_new(sc, id, t, uid) ==
    LET swept == cleanup_expired_sessions(sc, t)
    IN  [i \in DOMAIN swept \cup {id} |->
           IF i = id THEN [conversation |-> NewConversation(id, uid, t), last_active |-> t]
           ELSE swept[i]]

\* save_conversation_state up to the creation of a missing entry
SaveOpen(sc, id, t, uid) ==
    LET swept == cleanup_expired_sessions(sc, t)
    IN  IF id \notin DOMAIN swept
        THEN swept @@ (id :> [conversation |-> NewConversation(id, uid, t),
                              last_active |-> t])
        ELSE swept

\* the stored time left as it was
save_conversation_state_stale(sc, id, content, role, t, uid) ==
    LET opened == SaveOpen(sc, id, t, uid)
        conversation == add_message(opened[id].conversation, content, role, t)
    IN  [opened EXCEPT ![id] = [conversation |-> conversation,
                                last_active |-> opened[id].last_active]]

\* save_conversation_state when add_message does not raise
save_conversation_state(sc, id, content, role, t, uid) ==
    LET opened == SaveOpen(sc, id, t, uid)
        conversation == add_message(opened[id].conversation, content, role, t)
    IN  [opened EXCEPT ![id] = [conversation |-> conversation, last_active |-> t]]

\* what one call of save_conversation_state leaves in the store
SaveResult(sc, id, content, role, t, uid) ==
    IF ValidMessage(content, role)
    THEN save_conversation_state(sc, id, content, role, t, uid)
    ELSE SaveOpen(sc, id, t, uid)

\* ids whose entry one call of save_conversation_state deletes
SaveDeletes(sc, t) == expired_sessions(sc, t)

\* ------------------------------------------------------------------ routing
Capabilities == {"excursion", "restaurant", "hotel", "flight"}

Keyword(c) ==
    CASE c = "excursion" -> KwExcursion [] c = "restaurant" -> KwRestaurant
      [] c = "hotel" -> KwHotel [] c = "flight" -> KwFlight

SelectSkill_flight_by_default(lowered) ==
    IF Contains(KwExcursion, lowered) THEN {<<"excursion_skill", "search_excursions">>}
    ELSE IF Contains(KwRestaurant, lowered) THEN {<<"restaurant_skill", "search_restaurants">>}
    ELSE IF Contains(KwHotel, lowered) THEN {<<"hotel_skill", "search_hotels">>}
    ELSE {<<"flight_skill", "search_flights">>}

SelectSkill_swapped(lowered) ==
    IF Contains(KwExcursion, lowered) THEN {<<"excursion_skill", "search_excursions">>}
    ELSE IF Contains(KwRestaurant, lowered) THEN {<<"restaurant_skill", "search_restaurants">>}
    ELSE IF Contains(KwHotel, lowered) THEN {<<"flight_skill", "search_flights">>}
    ELSE IF Contains(KwFlight, lowered) THEN {<<"hotel_skill", "search_hotels">>}
    ELSE {}

\* the chain testing the keywords in the order flight, hotel, restaurant,
\* excursion
SelectSkill_flight_first(lowered) ==
    IF Contains(KwFlight, lowered) THEN {<<"flight_skill", "search_flights">>}
    ELSE IF Contains(KwHotel, lowered) THEN {<<"hotel_skill", "search_hotels">>}
    ELSE IF Contains(KwRestaurant, lowered) THEN {<<"restaurant_skill", "search_restaurants">>}
    ELSE IF Contains(KwExcursion, lowered) THEN {<<"excursion_skill", "search_excursions">>}
    ELSE {}

\* the if/elif chain of process_user_input: the skill function invoked
SelectSkill(lowered) ==
    IF Contains(KwExcursion, lowered) THEN {<<"excursion_skill", "search_excursions">>}
    ELSE IF Contains(KwRestaurant, lowered) THEN {<<"restaurant_skill", "search_restaurants">>}
    ELSE IF Contains(KwHotel, lowered) THEN {<<"hotel_skill", "search_hotels">>}
    ELSE IF Contains(KwFlight, lowered) THEN {<<"flight_skill", "search_flights">>}
    ELSE {}

generate_suggestions(message) ==
    IF Contains(KwFlight, message)
    THEN <<"Check flight prices", "View flight details", "Compare airlines">>
    ELSE IF Contains(KwHotel, message)
    THEN <<"View hotel amenities", "Check availability", "Compare rates">>
    ELSE IF Contains(KwRestaurant, message)
    THEN <<"View menu", "Check reviews", "Make a reservation">>
    ELSE IF Contains(KwExcursion, message)
    THEN <<"View activities", "Check availability", "Compare options">>
    ELSE <<>>

Unidentified == "Sorry, I couldn't identify your request. Please mention excursion, restaurant, hotel, or flight."
Apology == "An error occurred while processing your request."

SuccessResult(response, lowered) ==
    [success |-> TRUE, response |-> response, suggestions |-> generate_suggestions(lowered)]
\* the except clause re-raising: the caller gets the exception, no response
FailureResult_reraised ==
    [success |-> FALSE, response |-> "<exception>", suggestions |-> <<>>]

FailureResult ==
    [success |-> FALSE, response |-> Apology, suggestions |-> <<>>]

\* what kernel.invoke can do: return a str, return a non-str object, raise
InvokeOutcomes == {"text", "object", "raise"}

IdleTurn ==
    [pc |-> "idle", cid |-> "none", message |-> "none", invoked |-> {},
     saved |-> 0, result |-> None]

NoOp ==
    [op |-> "none", id |-> "none", at |-> 0, present |-> FALSE, expired |-> FALSE,
     had |-> 0, appended |-> <<>>, result |-> None]

IdleCall ==
    [svc |-> "none", pc |-> "idle", attempt |-> 0, requests |-> 0,
     waits |-> <<>>, outcomes |-> <<>>, result |-> None]

IdleProvider ==
    [kind |-> "none", op |-> "none", llm |-> <<>>, api |-> None, body |-> "none",
     result |-> None, response |-> None,
     intent |-> <<>>, handler |-> "none", outcome |-> "none", called |-> FALSE]

Init ==
    /\ session_conversations = <<>>
    /\ now = 0
    /\ next_uuid = 1
    /\ turn = [t \in Turns |-> IdleTurn]
    /\ last_op = NoOp
    /\ calls = [id \in ConversationIds |-> <<>>]
    /\ evicted = [id \in ConversationIds |-> FALSE]
    /\ call = IdleCall
    /\ provider = IdleProvider

\* the record of a store call on id, taken before the call changes anything:
\* whether the id had an entry, whether that entry was older than the timeout,
\* how many messages it held, and the time of the call
OpRecord(op, id, appended, result) ==
    LET present == id \in DOMAIN session_conversations
    IN  [ op |-> op, id |-> id, at |-> now,
          present |-> present,
          expired |-> present /\ now - session_conversations[id].last_active > SESSION_TIMEOUT,
          had |-> IF present
                  THEN Len(session_conversations[id].conversation.messages) ELSE 0,
          appended |-> appended, result |-> result ]

\* the bookkeeping of deletions and of saves
Track(deleted, id, appended) ==
    /\ evicted' = [i \in ConversationIds |-> evicted[i] \/ i \in deleted]
    /\ calls' = [i \in ConversationIds |->
                   (IF i \in deleted THEN <<>> ELSE calls[i])
                   \o (IF i = id THEN appended ELSE <<>>)]

Tick(d) ==
    /\ now + d <= MaxTime
    /\ now' = now + d
    /\ UNCHANGED <<session_conversations, next_uuid, turn, last_op, calls, evicted, call, provider>>

\* ------------------------------------------------------------ skill functions
\* the capability a plugin serves
CapabilityOfSkill(f) ==
    CASE f[1] = "excursion_skill" -> "excursion" [] f[1] = "restaurant_skill" -> "restaurant"
      [] f[1] = "hotel_skill" -> "hotel" [] f[1] = "flight_skill" -> "flight"

\* KernelArguments({"input": message}): the keys process_user_input passes
OrchestratorArguments == {"input"}

\* the keys a search function tests with `if not ... or not ...`
RequiredArguments(c) ==
    CASE c = "flight" -> {"origin", "destination"} [] c = "hotel" -> {"location", "stars"}
      [] c = "restaurant" -> {"location", "cuisine"} [] c = "excursion" -> {"location", "activity"}

PleaseProvide(c) ==
    CASE c = "flight" -> "Please provide both origin and destination to search for flights."
      [] c = "hotel" -> "Please provide both a location and star rating to search for hotels."
      [] c = "restaurant" -> "Please provide both location and cuisine to search."
      [] c = "excursion" -> "Please provide both location and type of activity to search for excursions."

SorryError(c) ==
    CASE c = "flight" -> "Sorry, an error occurred while searching for flights."
      [] c = "hotel" -> "Sorry, an error occurred while searching for hotels."
      [] c = "restaurant" -> "Sorry, an error occurred while searching for restaurants."
      [] c = "excursion" -> "Sorry, an error occurred while searching for excursions."

\* search_flights, search_hotels, search_restaurants, search_excursions: the
\* str returned, whether context["error"] was set, and the keys written to the
\* context the function was given (its context update).  arguments are the keys
\* with a non-empty value; fetch is what the _fetch_*_data helper did ("data":
\* a body with a response, "empty": {} after any failure of the request,
\* "raise": an exception inside the try block).
search(c, arguments, fetch) ==
    IF ~(RequiredArguments(c) \subseteq arguments)
    THEN [response |-> PleaseProvide(c), error |-> TRUE, patch |-> {"error"}]
    ELSE IF fetch = "raise"
    THEN [response |-> SorryError(c), error |-> TRUE, patch |-> {"error"}]
    ELSE IF fetch = "data"
    THEN [response |-> "<api_response.response>", error |-> FALSE,
          patch |-> {"success", "response"}]
    ELSE [response |-> "<Found ...>", error |-> FALSE, patch |-> {"success", "response"}]

\* -------------------------------------------------------- process_user_input
\* save_conversation_state creates the entry: the id is absent after the sweep
Creates(sc, id, t) == id \notin DOMAIN cleanup_expired_sessions(sc, t)

\* the str the invoked skill function returns for the orchestrator's arguments
SkillResponse(invoked) ==
    search(CapabilityOfSkill(CHOOSE f \in invoked : TRUE), OrchestratorArguments, "empty").response

\* process_user_input from its entry to its first suspension: the user
\* message is saved and the skill chosen; with no keyword the turn has no
\* suspension point and runs to its return.
ReceiveMessage(t, id, m) ==
    LET lowered == Lower(MessageText[m])
        skill == SelectSkill(lowered)
        sc1 == SaveResult(session_conversations, id, m, "user", now, next_uuid)
        uuid1 == IF Creates(session_conversations, id, now)
                 THEN next_uuid + 1 ELSE next_uuid
        sc2 == SaveResult(sc1, id, Unidentified, "assistant", now, uuid1)
        appended == IF skill = {}
                    THEN <<Message(m, "user"), Message(Unidentified, "assistant")>>
                    ELSE <<Message(m, "user")>>
    IN  /\ turn[t].pc = "idle"
        /\ \A u \in Turns : u < t => turn[u].pc # "idle"
        /\ session_conversations' = IF skill = {} THEN sc2 ELSE sc1
        /\ next_uuid' = uuid1
        /\ turn' = [turn EXCEPT ![t] =
                      IF skill = {}
                      THEN [pc |-> "done", cid |-> id, message |-> m, invoked |-> {},
                            saved |-> 2,
                            result |-> Some(SuccessResult(Unidentified, lowered))]
                      ELSE [pc |-> "invoking", cid |-> id, message |-> m,
                            invoked |-> skill, saved |-> 1, result |-> None]]
        /\ last_op' = OpRecord("save", id, appended, None)
        /\ Track(SaveDeletes(session_conversations, now), id, appended)
        /\ UNCHANGED <<now, call, provider>>

\* kernel.invoke raises: the except clause returns the apology
InvokeRaises(t) ==
    /\ turn[t].pc = "invoking"
    /\ turn' = [turn EXCEPT ![t].pc = "done", ![t].result = Some(FailureResult)]
    /\ UNCHANGED <<session_conversations, now, next_uuid, last_op, calls, evicted, call, provider>>

\* kernel.invoke returns: the response is saved as the assistant message and
\* the turn returns; a response that is not a str makes add_message raise.
InvokeReturns(t, outcome) ==
    LET id == turn[t].cid
        lowered == Lower(MessageText[turn[t].message])
        response == IF outcome = "text" THEN SkillResponse(turn[t].invoked)
                    ELSE "<FunctionResult>"
        ok == ValidMessage(response, "assistant")
        appended == IF ok THEN <<Message(response, "assistant")>> ELSE <<>>
    IN  /\ turn[t].pc = "invoking"
        /\ outcome \in {"text", "object"}
        /\ session_conversations' =
               SaveResult(session_conversations, id, response, "assistant", now, next_uuid)
        /\ next_uuid' = IF Creates(session_conversations, id, now)
                        THEN next_uuid + 1 ELSE next_uuid
        /\ turn' = [turn EXCEPT
                      ![t].pc = "done",
                      ![t].saved = IF ok THEN 2 ELSE 1,
                      ![t].result = IF ok THEN Some(SuccessResult(response, lowered))
                                    ELSE Some(FailureResult)]
        /\ last_op' = OpRecord("save", id, appended, None)
        /\ Track(SaveDeletes(session_conversations, now), id, appended)
        /\ UNCHANGED <<now, call, provider>>

\* ------------------------------------------------- the other store operations
GetConversation(id) ==
    LET swept == cleanup_expired_sessions(session_conversations, now)
        live == /\ id \in DOMAIN swept
                /\ now - swept[id].last_active <= SESSION_TIMEOUT
    IN  /\ session_conversations' =
               IF live THEN [swept EXCEPT ![id].last_active = now] ELSE swept
        /\ last_op' = OpRecord("get", id, <<>>,
                               IF live THEN Some(swept[id].conversation) ELSE None)
        /\ Track(expired_sessions(session_conversations, now), id, <<>>)
        /\ UNCHANGED <<now, next_uuid, turn, call, provider>>

LoadConversationHistory(id) ==
    /\ last_op' = OpRecord("load", id, <<>>,
                           IF id \in DOMAIN session_conversations
                           THEN Some(session_conversations[id]) ELSE None)
    /\ UNCHANGED <<session_conversations, now, next_uuid, turn, calls, evicted, call, provider>>

CleanupSession(id) ==
    /\ session_conversations' = cleanup_session(session_conversations, id)
    /\ last_op' = OpRecord("cleanup", id, <<>>, None)
    /\ Track({id} \cap DOMAIN session_conversations, id, <<>>)
    /\ UNCHANGED <<now, next_uuid, turn, call, provider>>

Next ==
    \/ \E d \in TickSteps : Tick(d)
    \/ \E t \in Turns, id \in ConversationIds, m \in TurnMessages : ReceiveMessage(t, id, m)
    \/ \E t \in Turns : InvokeRaises(t)
    \/ \E t \in Turns, outcome \in InvokeOutcomes : InvokeReturns(t, outcome)
    \/ \E id \in ConversationIds : GetConversation(id)
    \/ \E id \in ConversationIds : LoadConversationHistory(id)
    \/ \E id \in ConversationIds : CleanupSession(id)

Spec == Init /\ [][Next]_vars

\* routing alone: every text, no clock and no other store operation
NextRoute ==
    \/ \E t \in Turns, id \in ConversationIds, m \in Messages : ReceiveMessage(t, id, m)
    \/ \E t \in Turns : InvokeRaises(t)
    \/ \E t \in Turns, outcome \in InvokeOutcomes : InvokeReturns(t, outcome)

SpecRoute == Init /\ [][NextRoute]_vars

\* ------------------------------------------------------------------ _call_api
Services == {"flight", "hotel", "restaurant", "excursion"}

\* what one request to the backing API can do: a 2xx answer with a JSON body,
\* a connection error (aiohttp.ClientConnectionError), an answer with a 4xx or
\* a 5xx status, or an exception that is no aiohttp.ClientError
\* (asyncio.TimeoutError)
Outcomes == {"ok", "conn", "s4xx", "s5xx", "timeout"}

\* response.raise_for_status() raises aiohttp.ClientResponseError
IsClientResponseError(o) == o \in {"s4xx", "s5xx"}

\* aiohttp.ClientResponseError is a subclass of aiohttp.ClientError
IsClientError(o) == o = "conn" \/ IsClientResponseError(o)

Returned == [kind |-> "return", type |-> "dict", msg |-> "<data>", cause |-> "none"]
Raised(type, msg, cause) == [kind |-> "raise", type |-> type, msg |-> msg, cause |-> cause]
Propagated(o) == Raised("TimeoutError", "<timeout>", "none")

Backoff_zero_based(attempt) == 2 ^ (attempt - 1)

\* asyncio.sleep(2**attempt)
Backoff(attempt) == 2 ^ attempt

\* the exception types of the two retrying services
ConnectionErrorType(svc) == IF svc = "flight" THEN "APIConnectionError" ELSE "Exception"
RequestErrorType(svc) == IF svc = "flight" THEN "APIError" ELSE "Exception"

RetryingRequest_no_limit(c, o) ==
    LET c1 == [c EXCEPT !.requests = @ + 1, !.outcomes = Append(@, o)]
    IN  IF o = "ok"
        THEN [c1 EXCEPT !.pc = "done", !.result = Some(Returned)]
        ELSE IF IsClientError(o)
        THEN IF c.attempt = max_retries + 1
             THEN [c1 EXCEPT !.pc = "done",
                             !.result = Some(Raised(ConnectionErrorType(c.svc),
                                        "API connection failed after retries", o))]
             ELSE [c1 EXCEPT !.pc = "sleeping"]
        ELSE [c1 EXCEPT !.pc = "done", !.result = Some(Propagated(o))]

\* the loop ending after the last failed attempt without a raise: the
\* function returns None
RetryingRequest_falls_out(c, o) ==
    LET c1 == [c EXCEPT !.requests = @ + 1, !.outcomes = Append(@, o)]
    IN  IF o = "ok"
        THEN [c1 EXCEPT !.pc = "done", !.result = Some(Returned)]
        ELSE IF IsClientError(o)
        THEN IF c.attempt = max_retries
             THEN [c1 EXCEPT !.pc = "done"]
             ELSE [c1 EXCEPT !.pc = "sleeping"]
        ELSE [c1 EXCEPT !.pc = "done", !.result = Some(Propagated(o))]

\* FlightService._call_api and HotelService._call_api: one pass of the loop
\* body after the request of the given attempt ended with outcome o.  The
\* except clauses are tried in the order of the source.
RetryingRequest(c, o) ==
    LET c1 == [c EXCEPT !.requests = @ + 1, !.outcomes = Append(@, o)]
    IN  IF o = "ok"
        THEN [c1 EXCEPT !.pc = "done", !.result = Some(Returned)]
        ELSE IF IsClientError(o)
        THEN IF c.attempt = max_retries
             THEN [c1 EXCEPT !.pc = "done",
                             !.result = Some(Raised(ConnectionErrorType(c.svc),
                                        "API connection failed after retries", o))]
             ELSE [c1 EXCEPT !.pc = "sleeping"]
        ELSE IF IsClientResponseError(o)
        THEN [c1 EXCEPT !.pc = "done",
                        !.result = Some(Raised(RequestErrorType(c.svc),
                                        "API request failed with status code", o))]
        ELSE [c1 EXCEPT !.pc = "done", !.result = Some(Propagated(o))]

\* RestaurantService._call_api
RestaurantRequest(c, o) ==
    LET c1 == [c EXCEPT !.requests = @ + 1, !.outcomes = Append(@, o), !.pc = "done"]
    IN  IF o = "ok" THEN [c1 EXCEPT !.result = Some(Returned)]
        ELSE IF IsClientError(o)
        THEN [c1 EXCEPT !.result = Some(Raised("Exception", "API call failed", "none"))]
        ELSE [c1 EXCEPT !.result = Some(Propagated(o))]

\* ExcursionService._call_api: the status is tested by hand
ExcursionRequest(c, o) ==
    LET c1 == [c EXCEPT !.requests = @ + 1, !.outcomes = Append(@, o), !.pc = "done"]
    IN  IF o \in {"s4xx", "s5xx"}
        THEN [c1 EXCEPT !.result = Some(Raised("Exception", "<error_data.message>", "none"))]
        ELSE IF o = "ok" THEN [c1 EXCEPT !.result = Some(Returned)]
        ELSE IF IsClientError(o)
        THEN [c1 EXCEPT !.result = Some(Raised("Exception", "API call failed", "none"))]
        ELSE [c1 EXCEPT !.result = Some(Propagated(o))]

call_api(c, o) ==
    CASE c.svc \in {"flight", "hotel"} -> RetryingRequest(c, o)
      [] c.svc = "restaurant" -> RestaurantRequest(c, o)
      [] c.svc = "excursion" -> ExcursionRequest(c, o)

\* a service method calls _call_api; the outcome of the operation before it
\* is no longer observed
StartCall(svc) ==
    /\ call.pc \in {"idle", "done"}
    /\ call' = [IdleCall EXCEPT !.svc = svc, !.pc = "ready", !.attempt = 1]
    /\ provider' = IdleProvider
    /\ UNCHANGED storeVars

\* the request of the current attempt is issued and ends
Request(o) ==
    /\ call.pc = "ready"
    /\ call' = call_api(call, o)
    /\ UNCHANGED <<storeVars, provider>>

\* the sleep before the next attempt
Sleep ==
    /\ call.pc = "sleeping"
    /\ call' = [call EXCEPT !.waits = Append(@, Backoff(call.attempt)),
                            !.attempt = @ + 1, !.pc = "ready"]
    /\ UNCHANGED <<storeVars, provider>>

NextApi ==
    \/ \E svc \in Services : StartCall(svc)
    \/ \E o \in Outcomes : Request(o)
    \/ Sleep

SpecApi == Init /\ [][NextApi]_vars

\* ------------------------------------------------- AzureOpenAIService.enhance_*
\* what one chat completion can do: answer with the text of a JSON object, of a
\* JSON array, with text that is no JSON, or fail
LlmOutcomes == {"json_dict", "json_list", "not_json", "llm_error"}
MaxLlmAttempts == 3
\* the completions an operation requests at most: only enhance_flight_results
\* goes through _call_openai_with_retry
Attempts(op) == IF op = "enhance_flight_results" THEN MaxLlmAttempts ELSE 1
\* the outcomes of the completions an operation may request, in order
LlmRuns(op) == [1..Attempts(op) -> LlmOutcomes]

Return(value) == [kind |-> "return", value |-> value]
Raise(type) == [kind |-> "raise", value |-> type]

\* json.loads: a str is parsed, any other argument is a TypeError
json_loads(v) ==
    CASE v = "str_dict" -> Return("dict")
      [] v = "str_list" -> Return("list")
      [] v = "str_junk" -> Raise("JSONDecodeError")
      [] OTHER -> Raise("TypeError")

\* response.choices[0].message.content
Content(o) ==
    CASE o = "json_dict" -> "str_dict" [] o = "json_list" -> "str_list" [] OTHER -> "str_junk"

\* _get_completion: the text of the completion, or Exception
get_completion(o) == IF o = "llm_error" THEN Raise("Exception") ELSE Return(Content(o))

\* _call_openai: the parsed completion; both except clauses re-raise
call_openai(o) == IF o = "llm_error" THEN Raise("Exception") ELSE json_loads(Content(o))

\* _call_openai_with_retry: the first attempt that does not raise, of three
RECURSIVE call_openai_with_retry(_, _)
call_openai_with_retry(llm, attempt) ==
    LET r == call_openai(llm[attempt + 1])
    IN  IF r.kind = "return" \/ attempt = Len(llm) - 1 THEN r
        ELSE call_openai_with_retry(llm, attempt + 1)

\* _parse_enhancement_response: json.loads, with None for every exception
parse_enhancement_response(v) ==
    IF json_loads(v).kind = "return" THEN json_loads(v).value ELSE "None"

\* the enhance operations by the shape of their code
ParsedTwiceDict == {"enhance_hotel_details", "enhance_hotel_availability",
                    "enhance_flight_details", "enhance_flight_availability",
                    "enhance_menu_details"}
ParsedTwiceList == {"enhance_excursion_results", "enhance_restaurant_recommendations"}
EnhanceOps ==
    ParsedTwiceDict \cup ParsedTwiceList \cup
    {"enhance_excursion_details", "enhance_search_results", "enhance_hotel_results",
     "enhance_flight_results", "enhance_excursion_categories",
     "enhance_availability_response"}

\* what an enhance operation gives its caller: "input" is the argument it was
\* given, "dict" and "list" the data of the completion, "None" is None
Enhance(op, llm) ==
    LET once == call_openai(llm[1])
    IN  CASE op = "enhance_excursion_details" ->
               IF get_completion(llm[1]).kind = "raise" THEN get_completion(llm[1])
               ELSE Return(parse_enhancement_response(get_completion(llm[1]).value))
          [] op = "enhance_search_results" ->
               IF once.kind = "raise" THEN Return("input") ELSE once
          [] op = "enhance_hotel_results" ->
               IF once.kind = "return" /\ once.value = "list" THEN once ELSE Return("input")
          [] op = "enhance_flight_results" ->
               LET r == call_openai_with_retry(llm, 0)
               IN  IF r.kind = "return" /\ r.value = "list" THEN r ELSE Return("input")
          [] op \in ParsedTwiceDict ->
               IF once.kind = "raise" THEN once
               ELSE IF parse_enhancement_response(once.value) = "dict"
               THEN Return("dict") ELSE Return("input")
          [] op \in ParsedTwiceList ->
               IF once.kind = "raise" THEN once
               ELSE IF parse_enhancement_response(once.value) = "list"
               THEN Return("list") ELSE Return("input")
          [] op = "enhance_excursion_categories" ->
               IF once.kind = "raise" THEN once
               ELSE IF json_loads(once.value).kind = "raise"
               THEN IF json_loads(once.value).value = "JSONDecodeError"
                    THEN Return("input") ELSE json_loads(once.value)
               ELSE IF json_loads(once.value).value = "list"
               THEN Return("list") ELSE Return("input")
          [] op = "enhance_availability_response" ->
               IF once.kind = "raise" THEN once
               ELSE IF once.value = "dict" THEN once ELSE Return("input")

\* an enhance operation is called and ends
EnhanceCall(op, llm) ==
    /\ provider' = [IdleProvider EXCEPT !.kind = "enhance", !.op = op, !.llm = llm,
                                        !.result = Some(Enhance(op, llm))]
    /\ UNCHANGED <<storeVars, call>>

\* ------------------------------------------------------- get_*_details lookups
\* the JSON body of a 2xx answer: the entity, or a body that is falsy
Bodies == {"entity", "empty"}

NotFoundError(svc) ==
    CASE svc = "flight" -> "FlightNotFoundError" [] svc = "hotel" -> "HotelNotFoundError"
      [] svc = "restaurant" -> "RestaurantNotFoundError"
      [] svc = "excursion" -> "ExcursionNotFoundError"

\* FlightService.get_flight_details and HotelService.get_hotel_details: every
\* exception is logged and re-raised as it is
ReraisingDetails(svc, api, body, llm) ==
    LET enhanced == Enhance(IF svc = "flight" THEN "enhance_flight_details"
                            ELSE "enhance_hotel_details", llm)
    IN  IF api.kind = "raise" THEN Raise(api.type)
        ELSE IF body = "empty" THEN Raise(NotFoundError(svc))
        ELSE IF enhanced.kind = "raise" THEN enhanced
        ELSE Return("entity")

\* RestaurantService.get_restaurant_details: every exception of the try block
\* becomes RestaurantNotFoundError
RestaurantDetails(api, body) ==
    IF api.kind = "raise" THEN Raise(NotFoundError("restaurant"))
    ELSE IF body = "empty" THEN Raise(NotFoundError("restaurant"))
    ELSE Return("entity")

\* ExcursionService.get_excursion_details: every exception of the try block,
\* that of Excursion(**enhanced_details) on a value that is no dict included,
\* becomes ExcursionNotFoundError
ExcursionDetails(api, body, llm) ==
    LET enhanced == Enhance("enhance_excursion_details", llm)
    IN  IF api.kind = "raise" THEN Raise(NotFoundError("excursion"))
        ELSE IF body = "empty" THEN Raise(NotFoundError("excursion"))
        ELSE IF enhanced.kind = "raise" THEN Raise(NotFoundError("excursion"))
        ELSE IF enhanced.value # "dict" THEN Raise(NotFoundError("excursion"))
        ELSE Return("entity")

get_details(svc, api, body, llm) ==
    CASE svc \in {"flight", "hotel"} -> ReraisingDetails(svc, api, body, llm)
      [] svc = "restaurant" -> RestaurantDetails(api, body)
      [] svc = "excursion" -> ExcursionDetails(api, body, llm)

CouldntFind(svc) ==
    CASE svc = "flight" -> "Sorry, I couldn't find that flight."
      [] svc = "hotel" -> "Sorry, I couldn't find that hotel."
      [] svc = "restaurant" -> "Sorry, I couldn't find that restaurant."
      [] svc = "excursion" -> "Sorry, I couldn't find that excursion."

\* the response of process() to an exception that the handler did not catch
Unexpected(svc) ==
    IF svc = "excursion" THEN "Sorry, I encountered an error: <str(e)>"
    ELSE "Sorry, an unexpected error occurred. Please try again later."

\* AgentResponse: data is None unless the call passes data=
AgentResponse(success, response, data) ==
    [success |-> success, response |-> response, data |-> data]

\* process() with the *_info intent and an id: _handle_*_info around the
\* outcome d of get_*_details
handle_info(svc, d) ==
    IF d.kind = "return" THEN AgentResponse(TRUE, "<details>", Some("<dict>"))
    ELSE IF d.value = NotFoundError(svc) THEN AgentResponse(FALSE, CouldntFind(svc), None)
    ELSE AgentResponse(FALSE, Unexpected(svc), None)

\* an agent answers a *_info request: _call_api of its service has ended, the
\* service method and the handler run to their end
Details(body, llm) ==
    LET api == CHOOSE r \in call.result : TRUE
        d == get_details(call.svc, api, body, llm)
    IN  /\ call.pc = "done"
        /\ provider' = [IdleProvider EXCEPT
                          !.kind = "details", !.op = call.svc, !.llm = llm,
                          !.api = call.result,
                          !.body = IF api.kind = "return" THEN body ELSE "none",
                          !.result = Some(d), !.response = Some(handle_info(call.svc, d))]
        /\ UNCHANGED <<storeVars, call>>

\* --------------------------------------------------------- capability agents
Agents == {"flight", "hotel", "restaurant", "excursion"}

\* the intents the agents name, one that no agent names, and the default ""
\* of request.get_parameter("intent", "")
IntentNames ==
    {"search_flights", "flight_info", "check_availability", "flight_status",
     "search_hotels", "hotel_info", "search_restaurants", "restaurant_info",
     "view_menu", "get_recommendations", "read_reviews", "search_excursions",
     "book_excursion", "excursion_info", "cancel_excursion", "list_categories",
     "book_flight", ""}

IntentText(n) ==
    CASE n = "search_flights" -> <<"s", "e", "a", "r", "c", "h", "_", "f", "l", "i", "g", "h", "t", "s">>
      [] n = "flight_info" -> <<"f", "l", "i", "g", "h", "t", "_", "i", "n", "f", "o">>
      [] n = "check_availability" -> <<"c", "h", "e", "c", "k", "_", "a", "v", "a", "i", "l", "a", "b", "i", "l", "i", "t", "y">>
      [] n = "flight_status" -> <<"f", "l", "i", "g", "h", "t", "_", "s", "t", "a", "t", "u", "s">>
      [] n = "search_hotels" -> <<"s", "e", "a", "r", "c", "h", "_", "h", "o", "t", "e", "l", "s">>
      [] n = "hotel_info" -> <<"h", "o", "t", "e", "l", "_", "i", "n", "f", "o">>
      [] n = "search_restaurants" -> <<"s", "e", "a", "r", "c", "h", "_", "r", "e", "s", "t", "a", "u", "r", "a", "n", "t", "s">>
      [] n = "restaurant_info" -> <<"r", "e", "s", "t", "a", "u", "r", "a", "n", "t", "_", "i", "n", "f", "o">>
      [] n = "view_menu" -> <<"v", "i", "e", "w", "_", "m", "e", "n", "u">>
      [] n = "get_recommendations" -> <<"g", "e", "t", "_", "r", "e", "c", "o", "m", "m", "e", "n", "d", "a", "t", "i", "o", "n", "s">>
      [] n = "read_reviews" -> <<"r", "e", "a", "d", "_", "r", "e", "v", "i", "e", "w", "s">>
      [] n = "search_excursions" -> <<"s", "e", "a", "r", "c", "h", "_", "e", "x", "c", "u", "r", "s", "i", "o", "n", "s">>
      [] n = "book_excursion" -> <<"b", "o", "o", "k", "_", "e", "x", "c", "u", "r", "s", "i", "o", "n">>
      [] n = "excursion_info" -> <<"e", "x", "c", "u", "r", "s", "i", "o", "n", "_", "i", "n", "f", "o">>
      [] n = "cancel_excursion" -> <<"c", "a", "n", "c", "e", "l", "_", "e", "x", "c", "u", "r", "s", "i", "o", "n">>
      [] n = "list_categories" -> <<"l", "i", "s", "t", "_", "c", "a", "t", "e", "g", "o", "r", "i", "e", "s">>
      [] n = "book_flight" -> <<"b", "o", "o", "k", "_", "f", "l", "i", "g", "h", "t">>
      [] n = "" -> <<>>

Casings == {"lower", "upper", "capitalize"}

Cased(s, casing) ==
    CASE casing = "upper" -> Upper(s) [] casing = "capitalize" -> Capitalize(s)
      [] OTHER -> s

\* the values of the "intent" parameter that requests carry
Intents == {Cased(IntentText(n), c) : n \in IntentNames, c \in Casings}

Texts(ns) == {IntentText(n) : n \in ns}

SUPPORTED_INTENTS(agent) ==
    CASE agent = "flight" ->
           Texts({"search_flights", "flight_info", "check_availability", "flight_status"})
      [] agent = "hotel" ->
           Texts({"search_hotels", "hotel_info", "check_availability"})
      [] agent = "restaurant" ->
           Texts({"search_restaurants", "restaurant_info", "check_availability",
                  "view_menu", "get_recommendations", "read_reviews"})
      [] agent = "excursion" ->
           Texts({"search_excursions", "book_excursion", "excursion_info",
                  "cancel_excursion", "list_categories"})

\* can_handle comparing the intent as given
can_handle_exact(agent, intent) == intent \in SUPPORTED_INTENTS(agent)

can_handle(agent, intent) == Lower(intent) \in SUPPORTED_INTENTS(agent)

\* the if/elif chain of process(): the text each branch compares the lowered
\* intent with and the handler it calls, in the order of the source
Branches(agent) ==
    CASE agent = "flight" ->
           << <<"search_flights", "_handle_flight_search">>,
              <<"flight_info", "_handle_flight_info">>,
              <<"check_availability", "_handle_availability_check">>,
              <<"flight_status", "_handle_flight_status">> >>
      [] agent = "hotel" ->
           << <<"search_hotels", "_handle_hotel_search">>,
              <<"hotel_info", "_handle_hotel_info">>,
              <<"check_availability", "_handle_availability_check">> >>
      [] agent = "restaurant" ->
           << <<"search_restaurants", "_handle_restaurant_search">>,
              <<"restaurant_info", "_handle_restaurant_info">>,
              <<"check_availability", "_handle_availability_check">>,
              <<"view_menu", "_handle_menu_request">>,
              <<"get_recommendations", "_handle_recommendations">>,
              <<"read_reviews", "_handle_reviews_request">> >>
      [] agent = "excursion" ->
           << <<"search_excursions", "_handle_excursion_search">>,
              <<"book_excursion", "_handle_excursion_booking">>,
              <<"excursion_info", "_handle_excursion_info">>,
              <<"cancel_excursion", "_handle_excursion_cancellation">>,
              <<"list_categories", "_handle_list_categories">> >>

\* the handler the chain reaches for a lowered intent, "none" when no branch
\* matches
HandlerOf(agent, lowered) ==
    LET b == Branches(agent)
        hits == {i \in 1..Len(b) : IntentText(b[i][1]) = lowered}
    IN  IF hits = {} THEN "none"
        ELSE b[CHOOSE i \in hits : \A j \in hits : i <= j][2]

\* what a handler can meet: a required parameter is missing, the date is in no
\* valid format, the interpreter's extract_* raises, the search parameters fail
\* validation, the service raises its not-found error or another exception,
\* the service finds nothing (or no availability), the service finds something
HandlerOutcomes(agent, handler) ==
    CASE handler = "none" -> {"none"}
      [] handler \in {"_handle_flight_search", "_handle_hotel_search",
                      "_handle_restaurant_search", "_handle_excursion_search"} ->
           {"extract_raises", "invalid", "not_found", "error", "empty", "found"}
      [] handler \in {"_handle_flight_info", "_handle_hotel_info",
                      "_handle_restaurant_info", "_handle_excursion_info",
                      "_handle_flight_status", "_handle_menu_request",
                      "_handle_reviews_request"} ->
           {"missing", "not_found", "error", "found"}
      [] handler = "_handle_availability_check" ->
           IF agent = "restaurant"
           THEN {"missing", "bad_date", "not_found", "error", "empty", "found"}
           ELSE {"missing", "not_found", "error", "empty", "found"}
      [] handler = "_handle_recommendations" ->
           {"extract_raises", "not_found", "error", "empty", "found"}
      [] handler = "_handle_excursion_booking" ->
           {"missing", "not_found", "error", "found"}
      [] handler = "_handle_excursion_cancellation" ->
           {"missing", "booking_error", "error", "found"}
      [] handler = "_handle_list_categories" -> {"error", "found"}

\* whether the handler reaches a call of the interpreter or of the service
Calls(handler, o) == handler # "none" /\ o \notin {"missing", "bad_date"}

Failed(response) == Return(AgentResponse(FALSE, response, None))
Succeeded(response) == Return(AgentResponse(TRUE, response, Some("<dict>")))
NothingFound(response) == Return(AgentResponse(TRUE, response, None))

\* the exception a handler lets through for an outcome
Escapes(agent, o) ==
    CASE o = "not_found" -> Raise(NotFoundError(agent))
      [] o = "invalid" -> Raise("ValidationError")
      [] o = "booking_error" -> Raise("BookingError")
      [] OTHER -> Raise("Exception")

FlightHandler(handler, o) ==
    CASE handler = "_handle_flight_search" ->
           ( CASE o = "invalid" -> Failed("Invalid search parameters: <e>")
               [] o = "empty" -> NothingFound("No flights found matching your criteria. Would you like to try different options?")
               [] o = "found" -> Succeeded("<flight results>")
               [] OTHER -> Failed("Failed to search flights: <e>") )
      [] handler = "_handle_flight_status" ->
           ( CASE o = "missing" -> Failed("Please provide a flight number to check status.")
               [] o = "not_found" -> Failed("Sorry, I couldn't find that flight. Please check the flight number.")
               [] o = "found" -> Succeeded("<flight details>")
               [] OTHER -> Escapes("flight", o) )
      [] handler = "_handle_flight_info" ->
           ( CASE o = "missing" -> Failed("Please specify which flight you'd like to know more about.")
               [] o = "not_found" -> Failed(CouldntFind("flight"))
               [] o = "found" -> Succeeded("<flight details>")
               [] OTHER -> Escapes("flight", o) )
      [] handler = "_handle_availability_check" ->
           ( CASE o = "missing" -> Failed("Please provide the flight and date to check availability.")
               [] o = "not_found" -> Failed(CouldntFind("flight"))
               [] o = "found" -> Succeeded("<available>")
               [] o = "empty" -> Succeeded("<not available>")
               [] OTHER -> Escapes("flight", o) )

HotelHandler(handler, o) ==
    CASE handler = "_handle_hotel_search" ->
           ( CASE o = "extract_raises" -> Escapes("hotel", o)
               [] o = "empty" -> NothingFound("I couldn't find any hotels matching your criteria. Would you like to try different options?")
               [] o = "found" -> Succeeded("<hotel results>")
               [] OTHER -> Failed("Failed to search hotels: <str(e)>") )
      [] handler = "_handle_hotel_info" ->
           ( CASE o = "missing" -> Failed("Please specify which hotel you'd like to know more about.")
               [] o = "not_found" -> Failed(CouldntFind("hotel"))
               [] o = "found" -> Succeeded("<hotel details>")
               [] OTHER -> Escapes("hotel", o) )
      [] handler = "_handle_availability_check" ->
           ( CASE o = "missing" -> Failed("Please provide hotel, room, and dates to check availability.")
               [] o = "not_found" -> Failed(CouldntFind("hotel"))
               [] o = "found" -> Succeeded("<available>")
               [] o = "empty" -> Succeeded("<not available>")
               [] OTHER -> Failed("Error checking availability: <str(e)>") )

RestaurantHandler(handler, o) ==
    CASE handler = "_handle_restaurant_search" ->
           ( CASE o = "extract_raises" -> Escapes("restaurant", o)
               [] o = "empty" -> NothingFound("I couldn't find any restaurants matching your criteria. Would you like to try different options?")
               [] o = "found" -> Succeeded("<restaurant results>")
               [] OTHER -> Failed("Failed to search restaurants: <str(e)>") )
      [] handler = "_handle_restaurant_info" ->
           ( CASE o = "missing" -> Failed("Please specify which restaurant you'd like to know more about.")
               [] o = "not_found" -> Failed(CouldntFind("restaurant"))
               [] o = "found" -> Succeeded("<restaurant details>")
               [] OTHER -> Escapes("restaurant", o) )
      [] handler = "_handle_menu_request" ->
           ( CASE o = "missing" -> Failed("Please specify which restaurant's menu you'd like to see.")
               [] o = "not_found" -> Failed(CouldntFind("restaurant"))
               [] o = "found" -> Succeeded("<menu>")
               [] OTHER -> Escapes("restaurant", o) )
      [] handler = "_handle_recommendations" ->
           ( CASE o = "extract_raises" -> Escapes("restaurant", o)
               [] o = "empty" -> NothingFound("I couldn't find any restaurants matching your preferences. Would you like to try different criteria?")
               [] o = "found" -> Succeeded("<recommendations>")
               [] OTHER -> Failed("Error getting recommendations: <str(e)>") )
      [] handler = "_handle_reviews_request" ->
           ( CASE o = "missing" -> Failed("Please specify which restaurant's reviews you'd like to see.")
               [] o = "not_found" -> Failed(CouldntFind("restaurant"))
               [] o = "found" -> Succeeded("<reviews>")
               [] OTHER -> Escapes("restaurant", o) )
      [] handler = "_handle_availability_check" ->
           ( CASE o = "missing" -> Failed("Please provide the restaurant and desired date to check availability.")
               [] o = "bad_date" -> Failed("Please provide a valid date format.")
               [] o = "not_found" -> Failed(CouldntFind("restaurant"))
               [] o = "found" -> Succeeded("<available>")
               [] o = "empty" -> Succeeded("<not available>")
               [] OTHER -> Failed("Error checking availability: <str(e)>") )

ExcursionHandler(handler, o) ==
    CASE handler = "_handle_excursion_search" ->
           ( CASE o = "extract_raises" -> Escapes("excursion", o)
               [] o = "empty" -> NothingFound("I couldn't find any excursions matching your criteria. Would you like to try different options?")
               [] o = "found" -> Succeeded("<excursion results>")
               [] OTHER -> Failed("Failed to search excursions: <str(e)>") )
      [] handler = "_handle_excursion_booking" ->
           ( CASE o = "missing" -> Failed("Please provide excursion details, date, and customer information to make a booking.")
               [] o = "found" -> Succeeded("Great! I've booked your excursion. Your booking reference is <reference>.")
               [] OTHER -> Failed("Booking failed: <str(e)>") )
      [] handler = "_handle_excursion_info" ->
           ( CASE o = "missing" -> Failed("Please specify which excursion you'd like to know more about.")
               [] o = "not_found" -> Failed(CouldntFind("excursion"))
               [] o = "found" -> Succeeded("<excursion details>")
               [] OTHER -> Escapes("excursion", o) )
      [] handler = "_handle_excursion_cancellation" ->
           ( CASE o = "missing" -> Failed("Please provide your booking reference and email to cancel.")
               [] o = "booking_error" -> Failed("Failed to cancel booking: <str(e)>")
               [] o = "found" -> Succeeded("Your booking has been cancelled. <message>")
               [] OTHER -> Escapes("excursion", o) )
      [] handler = "_handle_list_categories" ->
           ( CASE o = "found" -> Succeeded("Here are the available activity categories:<categories>")
               [] OTHER -> Failed("Failed to fetch categories: <str(e)>") )

Handler(agent, handler, o) ==
    CASE agent = "flight" -> FlightHandler(handler, o)
      [] agent = "hotel" -> HotelHandler(handler, o)
      [] agent = "restaurant" -> RestaurantHandler(handler, o)
      [] agent = "excursion" -> ExcursionHandler(handler, o)

\* the response of process() when no branch of the chain matches
NotSure_with_data(agent) ==
    AgentResponse(FALSE, "I'm not sure how to help with that.", Some("<dict>"))

NotSure(agent) ==
    AgentResponse(FALSE,
        CASE agent = "flight" -> "I'm not sure how to help with that. Would you like to search for flights?"
          [] agent = "hotel" -> "I'm not sure how to help with that. Would you like to search for hotels?"
          [] agent = "restaurant" -> "I'm not sure how to help with that. Would you like to search for restaurants?"
          [] agent = "excursion" -> "I'm not sure how to handle that request. Would you like to search for excursions?",
        None)

\* the except clauses of process(): ValidationError, the agent's not-found
\* error, Exception; ExcursionAgent has the last clause only
Caught(agent, type) ==
    AgentResponse(FALSE,
        IF agent = "excursion" THEN Unexpected(agent)
        ELSE IF type = "ValidationError"
        THEN (IF agent = "restaurant"
              THEN "Invalid input. Please check your request and try again."
              ELSE "Invalid input: Please review your request and try again.")
        ELSE IF type = NotFoundError(agent)
        THEN (IF agent = "flight"
              THEN "I couldn't find any flights matching your criteria. Please try adjusting your search parameters."
              ELSE "There was a problem processing your request. Please try again later.")
        ELSE Unexpected(agent),
        None)

process(agent, intent, o) ==
    LET handler == HandlerOf(agent, Lower(intent))
        r == IF handler = "none" THEN Return(NotSure(agent))
             ELSE Handler(agent, handler, o)
    IN  IF r.kind = "return" THEN r.value ELSE Caught(agent, r.value)

\* an agent answers a request; what its service and the interpreter do during
\* the request is the outcome o, so no separate _call_api is in flight
Process(agent, intent, o) ==
    LET handler == HandlerOf(agent, Lower(intent))
    IN  /\ call = IdleCall
        /\ o \in HandlerOutcomes(agent, handler)
        /\ provider' = [IdleProvider EXCEPT
                          !.kind = "process", !.op = agent, !.intent = intent,
                          !.handler = handler, !.outcome = o,
                          !.called = Calls(handler, o),
                          !.response = Some(process(agent, intent, o))]
        /\ UNCHANGED <<storeVars, call>>

AllOutcomes ==
    {"none", "missing", "bad_date", "extract_raises", "invalid", "not_found",
     "booking_error", "error", "empty", "found"}

NextProvider ==
    \/ \E svc \in Services : StartCall(svc)
    \/ \E o \in Outcomes : Request(o)
    \/ Sleep
    \/ \E op \in EnhanceOps : \E llm \in LlmRuns(op) : EnhanceCall(op, llm)
    \/ \E body \in Bodies, llm \in LlmRuns("details") : Details(body, llm)
    \/ \E agent \in Agents, intent \in Intents, o \in AllOutcomes :
           Process(agent, intent, o)

SpecProvider == Init /\ [][NextProvider]_vars

\* ===================================================================== claims
Entry(id) == session_conversations[id]
Stored(id) ==
    IF id \in DOMAIN session_conversations THEN Entry(id).conversation.messages ELSE <<>>

\* the entry a save on an unknown id leaves: created at the time of the call
\* with a new user id and an empty context, holding only what the call appended
FreshEntry(id, appended, t) ==
    [ conversation |-> [NewConversation(id, next_uuid - 1, t) EXCEPT
                          !.messages = appended,
                          !.last_active = Clock(t, "add_message")],
      last_active |-> t ]

\* C1: a save for an id whose entry is older than the 30-minute timeout leaves
\* what a save for an id without entry leaves: a new session holding only the
\* messages of this call, none of the old messages and a new context.
C1_ExpiredSaveStartsFresh ==
    (/\ last_op.op = "save"
     /\ last_op.appended # <<>>
     /\ last_op.expired \/ ~last_op.present)
    => /\ last_op.id \in DOMAIN session_conversations
       /\ Entry(last_op.id) = FreshEntry(last_op.id, last_op.appended, last_op.at)

C1_Witness ==
    /\ last_op.op = "save"
    /\ last_op.expired
    /\ last_op.had >= 2
    /\ Len(last_op.appended) = 1
    /\ Len(Stored(last_op.id)) = 1

\* C2 (as claimed): no read answers with an expired session; get_conversation
\* and load_conversation_history answer for it with none.
C2_ExpiredNeverRead ==
    (last_op.op \in {"get", "load"} /\ last_op.expired) => last_op.result = None

\* C3: a stored conversation holds exactly the messages saved since its entry
\* was created, in the order of the save calls.
C3_MessagesAreTheSavesInOrder ==
    \A id \in DOMAIN session_conversations :
        Entry(id).conversation.messages = calls[id]

C3_Witness ==
    \E id \in DOMAIN session_conversations :
        /\ Len(calls[id]) >= 3
        /\ Len(Stored(id)) >= 3
        /\ Stored(id)[1] # Stored(id)[2]

RECURSIVE SavedBy(_, _)
SavedBy(id, ts) ==
    IF ts = {} THEN 0
    ELSE LET t == CHOOSE u \in ts : TRUE
         IN  (IF turn[t].cid = id THEN turn[t].saved ELSE 0) + SavedBy(id, ts \ {t})

\* C4: when no turn is suspended and no entry of the id was ever deleted, the
\* conversation holds as many messages as the turns for that id have saved,
\* also when those turns overlapped.
C4_NoAppendLost ==
    \A id \in ConversationIds :
        ((\A t \in Turns : turn[t].pc # "invoking") /\ ~evicted[id])
        => Len(Stored(id)) = SavedBy(id, Turns)

\* two turns of one conversation overlapped and both returned success
C4_Witness ==
    \E id \in ConversationIds :
        /\ ~evicted[id]
        /\ \A t \in {1, 2} : /\ turn[t].pc = "done" /\ turn[t].cid = id
                             /\ turn[t].saved = 2 /\ turn[t].invoked # {}
        /\ Len(Stored(id)) = 4
        /\ Stored(id)[1].role = "user" /\ Stored(id)[2].role = "user"

Transient == {"conn", "s5xx"}
NonDecreasing(w) == \A i, j \in 1..Len(w) : i <= j => w[i] <= w[j]
TheResult == CHOOSE r \in call.result : TRUE

C6_RejectedNotRetried ==
    (/\ call.svc \in {"flight", "hotel"}
     /\ call.outcomes # <<>>
     /\ call.outcomes[1] = "s4xx")
    => /\ call.pc = "done"
       /\ call.requests = 1
       /\ call.result = Some(Raised(RequestErrorType(call.svc),
                                    "API request failed with status code", "s4xx"))

\* C7 (as claimed): every service's client retries a transient failure, up to
\* three attempts with waits 2 and 4, and ends with the connection failure.
C7_UniformPolicy ==
    (/\ call.pc = "done"
     /\ call.outcomes # <<>>
     /\ \A k \in 1..Len(call.outcomes) : call.outcomes[k] \in Transient)
    => /\ call.requests = max_retries
       /\ call.waits = <<2, 4>>
       /\ TheResult.msg = "API connection failed after retries"

\* C8: the k-th wait is 2^k, a wait follows every failed attempt that is
\* retried, and no call makes more than three requests.
C8_ExponentialBackoff ==
    /\ \A k \in 1..Len(call.waits) : call.waits[k] = 2 ^ k
    /\ call.requests <= max_retries
    /\ call.pc = "ready" => (Len(call.waits) = call.requests /\ call.attempt = call.requests + 1)
    /\ call.pc = "sleeping" => Len(call.waits) = call.requests - 1

C8_Witness ==
    /\ call.svc = "hotel"
    /\ call.waits = <<2, 4>>
    /\ call.requests = 3

\* the capabilities whose keyword occurs in the text, case-insensitively
KeywordsOf(m) == {c \in Capabilities : Contains(Keyword(c), Lower(MessageText[m]))}

SkillOf(c) ==
    CASE c = "excursion" -> <<"excursion_skill", "search_excursions">>
      [] c = "restaurant" -> <<"restaurant_skill", "search_restaurants">>
      [] c = "hotel" -> <<"hotel_skill", "search_hotels">>
      [] c = "flight" -> <<"flight_skill", "search_flights">>

\* C9: a turn whose text holds the keyword of exactly one capability invokes
\* the skill of that capability and no other.
C9_SingleKeywordOneSkill ==
    \A t \in Turns : \A c \in Capabilities :
        (turn[t].pc # "idle" /\ KeywordsOf(turn[t].message) = {c})
        => turn[t].invoked = {SkillOf(c)}

C9_Witness ==
    \E t \in Turns :
        /\ turn[t].message = "hotel"
        /\ turn[t].pc = "done"
        /\ turn[t].invoked = {SkillOf("hotel")}

\* C10 (as claimed): a turn whose text holds the keywords of two capabilities
\* invokes the skills of both.
C10_TwoKeywordsBothSkills ==
    \A t \in Turns :
        (turn[t].pc # "idle" /\ Cardinality(KeywordsOf(turn[t].message)) = 2)
        => turn[t].invoked = {SkillOf(c) : c \in KeywordsOf(turn[t].message)}

\* C11: a turn whose text holds no capability keyword invokes no skill, has no
\* suspension point, and answers with the prompt that asks for a capability.
C11_NoKeywordNoSkill ==
    \A t \in Turns :
        (turn[t].pc # "idle" /\ KeywordsOf(turn[t].message) = {})
        => /\ turn[t].invoked = {}
           /\ turn[t].pc = "done"
           /\ turn[t].result = Some([success |-> TRUE, response |-> Unidentified,
                                     suggestions |-> <<>>])

C11_Witness ==
    \E t \in Turns :
        /\ turn[t].message = "split"
        /\ turn[t].pc = "done"
        /\ turn[t].invoked = {}
        /\ Stored(turn[t].cid) # <<>>
        /\ Stored(turn[t].cid)[Len(Stored(turn[t].cid))] = Message(Unidentified, "assistant")

\* C12: every turn that has ended has returned a response to its caller; a
\* turn in which kernel.invoke raised or the save of the assistant message
\* raised (a step of the turn failed, so fewer than two messages were saved)
\* has returned success=false with the generic apology, and every other turn
\* has returned success=true.
C12_FailureIsAReturnedApology ==
    \A t \in Turns :
        turn[t].pc = "done"
        => /\ turn[t].result # None
           /\ turn[t].saved < 2
              => turn[t].result = Some([success |-> FALSE, response |-> Apology,
                                        suggestions |-> <<>>])
           /\ turn[t].saved = 2
              => \E r \in turn[t].result : r.success /\ r.response # Apology

\* two turns have failed after the save of their user message, the later one
\* because the save of a response that is no str raised
C12_Witness ==
    /\ turn[1].pc = "done" /\ turn[1].saved = 1
    /\ turn[2].pc = "done" /\ turn[2].saved = 1
    /\ last_op.op = "save" /\ last_op.appended = <<>>
    /\ Len(Stored(turn[1].cid)) = 1

\* the texts a skill function returns on the paths that set context["error"]
SkillErrorTexts == {PleaseProvide(c) : c \in Capabilities} \cup {SorryError(c) : c \in Capabilities}

\* C13 (as claimed): a turn whose skill function ended on one of its error
\* paths reports success=false to the caller.
C13_SkillFailureReported ==
    \A t \in Turns :
        turn[t].pc = "done"
        => \A r \in turn[t].result : r.response \in SkillErrorTexts => ~r.success

TheEnhanced == CHOOSE r \in provider.result : TRUE
LlmFailed(o) == o \in {"not_json", "llm_error"}

\* C15 (as claimed): an enhance operation whose completions all failed or were
\* no JSON returns the input it was given; it neither raises nor returns None.
C15_EnhanceFallsBack ==
    (provider.kind = "enhance" /\ \A k \in 1..Len(provider.llm) : LlmFailed(provider.llm[k]))
    => TheEnhanced = Return("input")

TheResponse == CHOOSE r \in provider.response : TRUE
TheApi == CHOOSE r \in provider.api : TRUE

\* C14 (as claimed): an agent answers a lookup with the couldn't-find message
\* exactly when the backing API answered without an entity.
C14_NotFoundIffNoEntity ==
    provider.kind = "details"
    => (TheResponse = AgentResponse(FALSE, CouldntFind(provider.op), None)
        <=> (TheApi.kind = "return" /\ provider.body = "empty"))

EntryOf(sc, id) == IF id \in DOMAIN sc THEN Some(sc[id]) ELSE None

\* the step creates, changes or removes the entry of id
Touches(id) == EntryOf(session_conversations', id) # EntryOf(session_conversations, id)

\* the step removes an entry of id that is older than the timeout
SweepsExpired(id) ==
    /\ id \in DOMAIN session_conversations
    /\ id \notin DOMAIN session_conversations'
    /\ now - session_conversations[id].last_active > SESSION_TIMEOUT

\* C16 (as claimed): a store operation or turn for one id never creates,
\* changes or removes the entry of another id.
C16_OtherSessionsUntouched ==
    [][\A b \in ConversationIds : Touches(b) => last_op'.id = b]_vars

\* C16 (amended): a store operation or turn for one id never creates or
\* changes the entry of another id, and removes it only when that entry is
\* older than the 30-minute timeout.
C16_OtherSessionsOnlySwept ==
    [][\A b \in ConversationIds : Touches(b) => (last_op'.id = b \/ SweepsExpired(b))]_vars

\* a save for "a" has swept the expired entry of "b" and left a's own
C16_Witness ==
    /\ last_op.op = "save" /\ last_op.id = "a"
    /\ evicted["b"] /\ "b" \notin DOMAIN session_conversations
    /\ ~evicted["a"] /\ Len(Stored("a")) >= 2

\* C17: after cleanup_session(id) the id has no entry; when it had none before,
\* the store is as it was; a get_conversation(id) that follows answers none,
\* and a save for id that follows leaves an entry that holds only what that
\* save appended.
C17_CleanupMakesAbsent ==
    [][/\ last_op'.op = "cleanup"
          => /\ last_op'.id \notin DOMAIN session_conversations'
             /\ last_op'.id \notin DOMAIN session_conversations
                => session_conversations' = session_conversations
       /\ (last_op.op = "cleanup" /\ last_op'.op = "get" /\ last_op'.id = last_op.id)
          => last_op'.result = None
       /\ (/\ last_op.op = "cleanup" /\ last_op'.op = "save"
           /\ last_op'.id = last_op.id /\ last_op'.appended # <<>>)
          => /\ last_op.id \in DOMAIN session_conversations'
             /\ session_conversations'[last_op.id].conversation.messages = last_op'.appended
             /\ session_conversations'[last_op.id].conversation.created_at.at = now
      ]_vars

\* cleanup_session has removed a live session that held a whole turn
C17_Witness ==
    /\ last_op.op = "cleanup"
    /\ last_op.present /\ ~last_op.expired /\ last_op.had >= 2
    /\ last_op.id \notin DOMAIN session_conversations
    /\ DOMAIN session_conversations # {}

\* C18 (as claimed): a save for an id without live entry creates a session
\* whose message list is empty at creation (it holds nothing but what this
\* very call appended) and whose creation time is equal to its last-activity
\* time.
C18_NewSessionEmptyAndStamped ==
    (last_op.op = "save" /\ (~last_op.present \/ last_op.expired))
    => /\ last_op.id \in DOMAIN session_conversations
       /\ Entry(last_op.id).conversation.messages = last_op.appended
       /\ Entry(last_op.id).conversation.created_at = Entry(last_op.id).conversation.last_active

\* the keys the invoked skill function wrote to the context it was given
SkillPatch(invoked) ==
    search(CapabilityOfSkill(CHOOSE f \in invoked : TRUE), OrchestratorArguments, "empty").patch

\* C19 (as claimed): when the response of a skill has been saved, the keys the
\* skill wrote to its context are in the context of the stored session, where
\* the next turn of the conversation finds them.
C19_ContextPatchMerged ==
    \A t \in Turns :
        (/\ turn[t].pc = "done" /\ turn[t].invoked # {} /\ turn[t].saved = 2
         /\ last_op.op = "save" /\ last_op.id = turn[t].cid
         /\ last_op.appended = <<Message(SkillResponse(turn[t].invoked), "assistant")>>)
        => /\ turn[t].cid \in DOMAIN session_conversations
           /\ SkillPatch(turn[t].invoked)
                \subseteq Entry(turn[t].cid).conversation.context.memory

\* C20 (as claimed): a save, a get_conversation or a load_conversation_history
\* on a live session leaves its last-activity time at the time of the call.
C20_EveryAccessRefreshes ==
    (/\ last_op.op \in {"save", "get", "load"}
     /\ last_op.present /\ ~last_op.expired
     /\ last_op.op = "save" => last_op.appended # <<>>)
    => /\ last_op.id \in DOMAIN session_conversations
       /\ Entry(last_op.id).last_active = last_op.at

\* C21 (as claimed): when a store operation has returned, no stored entry is
\* older than the 30-minute timeout.
C21_NoExpiredEntryAfterAnyOperation ==
    (last_op.op # "none" /\ last_op.at = now)
    => \A id \in DOMAIN session_conversations :
           now - Entry(id).last_active <= SESSION_TIMEOUT

\* the step is a call of the store operation op on id
StoreCall(op, id) ==
    /\ last_op' # last_op
    /\ last_op'.op = op /\ last_op'.id = id

\* C22 (as claimed): an entry whose last activity is exactly 30 minutes old is
\* not live: get_conversation answers none for it and removes it, and a save
\* for its id leaves a session that holds only what that save appended.
C22_ExactlyTimeoutIsExpired ==
    [][\A id \in ConversationIds :
          (/\ id \in DOMAIN session_conversations
           /\ now - session_conversations[id].last_active = SESSION_TIMEOUT)
          => /\ StoreCall("get", id)
                => (last_op'.result = None /\ id \notin DOMAIN session_conversations')
             /\ StoreCall("save", id)
                => session_conversations'[id].conversation.messages = last_op'.appended
      ]_vars

\* the transcript of id that a sweep at this moment leaves
LiveMessages(id) ==
    IF /\ id \in DOMAIN session_conversations
       /\ now - session_conversations[id].last_active <= SESSION_TIMEOUT
    THEN session_conversations[id].conversation.messages
    ELSE <<>>

\* turn t enters the program point pc in this step
Enters(t, pc) == turn[t].pc # pc /\ turn'[t].pc = pc

TurnResultOf(m, outcome) ==
    LET lowered == Lower(MessageText[m])
        skill == SelectSkill(lowered)
        response == IF outcome = "text" THEN SkillResponse(skill) ELSE "<FunctionResult>"
    IN  IF skill = {} THEN SuccessResult(Unidentified, lowered)
        ELSE IF outcome = "raise" THEN FailureResult
        ELSE IF ValidMessage(response, "assistant") THEN SuccessResult(response, lowered)
        ELSE FailureResult

\* C24: every response of an agent's process() and every result of
\* process_user_input has a non-empty message, and carries no data when its
\* success is false (the orchestrator's results never have a data field).
C24_FailureHasNoDataAndMessageNonEmpty ==
    /\ \A r \in provider.response :
           /\ ~r.success => r.data = None
           /\ r.response # ""
    /\ \A m \in Messages, outcome \in InvokeOutcomes :
           LET r == TurnResultOf(m, outcome)
           IN  /\ ~r.success => "data" \notin DOMAIN r
               /\ r.response # ""

\* an agent whose service raised answers with a failure
C24_Witness ==
    /\ provider.kind = "process"
    /\ provider.called
    /\ provider.outcome = "error"
    /\ ~TheResponse.success
    /\ TheResponse.data = None

\* C30: process() of each agent reaches a handler exactly when can_handle is
\* true for the intent, whatever the case of its letters, each supported
\* intent has a handler of its own, and for every other intent process()
\* returns the success=false fallback without calling the service or the
\* interpreter.
C30_RoutesIffCanHandle ==
    /\ provider.kind = "process" =>
           /\ (provider.handler # "none") <=> can_handle(provider.op, provider.intent)
           /\ ~can_handle(provider.op, provider.intent) =>
                  /\ TheResponse = NotSure(provider.op)
                  /\ ~TheResponse.success
                  /\ ~provider.called
    /\ \A agent \in Agents : \A i, j \in SUPPORTED_INTENTS(agent) :
           i # j => HandlerOf(agent, i) # HandlerOf(agent, j)

\* an intent written in capitals is routed to its handler, which calls the
\* service
C30_Witness ==
    /\ provider.kind = "process"
    /\ provider.intent = Upper(IntentText("check_availability"))
    /\ provider.op = "hotel"
    /\ provider.handler = "_handle_availability_check"
    /\ provider.called

\* C25: every stored conversation has a non-empty message list whose first
\* message has the role user, also when cleanup_session or the expiry sweep
\* runs while a turn is suspended between its two saves.
C25_TranscriptStartsWithUser ==
    \A id \in DOMAIN session_conversations :
        /\ Stored(id) # <<>>
        /\ Stored(id)[1].role = "user"

\* C26: the step in which a turn fails after the save of its user message
\* leaves the stored transcript of its id as it was: no assistant message is
\* added, the apology is not recorded and the user message is not removed.
C26_FailedTurnKeepsUserMessage ==
    [][\A t \in Turns :
          (turn[t].pc = "invoking" /\ Enters(t, "done")
           /\ \E r \in turn'[t].result : ~r.success)
          => LET id == turn[t].cid
                 before == Stored(id)
                 after == IF id \in DOMAIN session_conversations'
                          THEN session_conversations'[id].conversation.messages
                          ELSE <<>>
             IN  /\ after = before
                 /\ \A k \in 1..Len(after) : after[k].content # Apology
      ]_vars

\* the place of a capability in the fixed priority
Priority(c) ==
    CASE c = "excursion" -> 1 [] c = "restaurant" -> 2 [] c = "hotel" -> 3
      [] c = "flight" -> 4

\* C27: a turn invokes at most one skill; when its text holds several
\* capability keywords the skill is that of the keyword first in the priority
\* excursion, restaurant, hotel, flight, wherever the keywords stand in the
\* text.
C27_OneSkillByFixedPriority ==
    \A t \in Turns :
        turn[t].pc # "idle"
        => LET kws == KeywordsOf(turn[t].message)
           IN  /\ Cardinality(turn[t].invoked) <= 1
               /\ \A c \in kws :
                      (\A d \in kws : Priority(c) <= Priority(d))
                      => turn[t].invoked = {SkillOf(c)}
               /\ \A u \in Turns :
                      (turn[u].pc # "idle" /\ KeywordsOf(turn[u].message) = kws)
                      => turn[u].invoked = turn[t].invoked

\* the two orders of the keywords flight and hotel have both invoked the hotel
\* skill
C27_Witness ==
    /\ turn[1].pc # "idle" /\ turn[1].message = "fl_ho"
    /\ turn[2].pc # "idle" /\ turn[2].message = "ho_fl"
    /\ turn[1].invoked = {SkillOf("hotel")}
    /\ turn[2].invoked = {SkillOf("hotel")}

\* the suggestions _generate_suggestions holds for a capability
SuggestionsFor(c) ==
    CASE c = "flight" -> <<"Check flight prices", "View flight details", "Compare airlines">>
      [] c = "hotel" -> <<"View hotel amenities", "Check availability", "Compare rates">>
      [] c = "restaurant" -> <<"View menu", "Check reviews", "Make a reservation">>
      [] c = "excursion" -> <<"View activities", "Check availability", "Compare options">>

\* C28 (as claimed): the suggestions of a successful turn are those of the
\* capability whose skill the turn invoked, and none when no skill was invoked.
C28_SuggestionsMatchInvokedSkill ==
    \A t \in Turns : \A r \in turn[t].result :
        (turn[t].pc = "done" /\ r.success)
        => /\ turn[t].invoked = {} => r.suggestions = <<>>
           /\ \A c \in Capabilities :
                  turn[t].invoked = {SkillOf(c)} => r.suggestions = SuggestionsFor(c)

\* C29: in the flight and hotel clients a request that succeeds ends the call
\* at once with that response, after k requests and one sleep after each of
\* the k-1 failed ones; the failure of the last attempt is followed by no
\* sleep; and a call that has ended has returned data or raised.
C29_ReturnsAtFirstSuccess ==
    call.svc \in {"flight", "hotel"}
    => /\ \A k \in 1..Len(call.outcomes) :
              call.outcomes[k] = "ok"
              => /\ k = Len(call.outcomes)
                 /\ k <= max_retries
                 /\ call.pc = "done"
                 /\ call.result = Some(Returned)
                 /\ call.requests = k
                 /\ Len(call.waits) = k - 1
                 /\ \A j \in 1..(k - 1) : IsClientError(call.outcomes[j])
       /\ call.pc = "sleeping" => call.attempt < max_retries
       /\ call.pc = "ready" => call.attempt <= max_retries
       /\ call.pc = "done"
          => /\ call.result # None
             /\ \A r \in call.result : r.kind \in {"return", "raise"}
             /\ Len(call.waits) = call.requests - 1
             /\ Len(call.waits) < max_retries

\* the third attempt succeeded after two failures and two sleeps
C29_Witness ==
    /\ call.svc = "flight"
    /\ call.pc = "done"
    /\ Len(call.outcomes) = 3 /\ call.outcomes[3] = "ok"
    /\ call.requests = 3
    /\ call.waits = <<2, 4>>
    /\ call.result = Some(Returned)

====
